---- MODULE Spec2Model ----
(***************************************************************************)
(* Client-side session and request orchestration of the customer portal:   *)
(* lib/api (apiRequest), context/AuthContext (AuthProvider), the chat      *)
(* popup with its AgentChatPage, the Header, the login page and the order  *)
(* pages.  One browser tab is modelled: its location, the React state of   *)
(* the mounted components, the requests in flight and the navigation the   *)
(* browser has been asked to perform.  The backend is the environment: it  *)
(* answers every request with any status and any body.                     *)
(*                                                                         *)
(* Strings that the code takes apart (paths, URLs, the chat input) are     *)
(* sequences of tokens; a path is "/" and segment tokens in turn.          *)
(***************************************************************************)
EXTENDS Integers, Sequences, FiniteSets, TLC

\* ------------------------------------------------------------- bounds
\* requests of one page life that may be in flight together
MaxInFlight == 2
\* turns submitted in one chat session
MaxTurns == 2

\* ------------------------------------------------------------- values
Undefined == "undefined"
Null == "null"
NoHref == <<>>
NoRedirect == <<>>
\* the value of `session` for a backend of which nothing is assumed
Unconstrained == "any"

Customers == {"c1"}

PathRoot == <<"/">>
PathLogin == <<"/", "login">>
PathOrders == <<"/", "orders">>
PathOrderDetail == <<"/", "orders", "/", "SO1">>
Pages == {PathRoot, PathLogin, PathOrders, PathOrderDetail}

\* HTTP statuses the backend answers with: success, authentication failure, other
Statuses == {200, 401, 500}

\* ------------------------------------------------------ string helpers
\* encodeURIComponent on a token string: "/" is escaped, segment tokens are
\* alphanumeric and stay as they are
encodeURIComponent(s) ==
  [i \in 1..Len(s) |-> IF s[i] = "/" THEN "%2F" ELSE s[i]]

\* a variant that leaves the query value as it is in the URL
decodeNothing(s) == s

\* the router's decoding of a query value
decodeURIComponent(s) ==
  [i \in 1..Len(s) |-> IF s[i] = "%2F" THEN "/" ELSE s[i]]

\* position of the query marker in a URL, 0 when there is none
QueryAt(url) ==
  IF \E i \in 1..Len(url) : url[i] = "?redirect="
    THEN CHOOSE i \in 1..Len(url) : url[i] = "?redirect="
    ELSE 0

\* window.location.pathname of a URL
PathnameOf(url) ==
  IF QueryAt(url) = 0 THEN url ELSE SubSeq(url, 1, QueryAt(url) - 1)

\* router.query.redirect of a URL; the empty string stands for an absent
\* parameter as well (both are falsy where the code reads it)
RedirectOf(url) ==
  IF QueryAt(url) = 0 THEN NoRedirect
  ELSE decodeURIComponent(SubSeq(url, QueryAt(url) + 1, Len(url)))

IsSpace(c) == c = " "

RECURSIVE TrimStart(_)
TrimStart(s) ==
  IF s # <<>> /\ IsSpace(Head(s)) THEN TrimStart(Tail(s)) ELSE s

RECURSIVE TrimEnd(_)
TrimEnd(s) ==
  IF s # <<>> /\ IsSpace(s[Len(s)]) THEN TrimEnd(SubSeq(s, 1, Len(s) - 1)) ELSE s

\* a variant that takes the input as typed
noTrim(s) == s

\* String.prototype.trim
trim(s) == TrimEnd(TrimStart(s))

\* what the customer types: nothing, blanks, and texts with blanks around and
\* inside them
Inputs == {<<>>, <<" ", " ">>, <<" ", "a", " ", "b", " ">>}

IsPrefix(s, t) == Len(s) <= Len(t) /\ SubSeq(t, 1, Len(s)) = s

\* ------------------------------------------------------------ lib/api
\* a parsed JSON body; a field the body lacks is Undefined
NoData ==
  [customer_id |-> Undefined, reply |-> Undefined, order_summary |-> Undefined,
   detail |-> Undefined, message |-> Undefined, error |-> Undefined]

isOnLoginPage(currentPath) == currentPath = PathLogin

\* a variant that forgets the /validate probe
isAuthCheckMeOnly(endpoint) == endpoint = "/me"

isAuthCheck(endpoint) == endpoint = "/me" \/ endpoint = "/validate"

redirectUrl(currentPath) ==
  PathLogin \o (IF currentPath # PathRoot
                  THEN <<"?redirect=">> \o encodeURIComponent(currentPath)
                  ELSE <<>>)

\* a variant that redirects on every 401
redirectOn401Always(endpoint, currentPath) == redirectUrl(currentPath)

\* a variant with the probe test inverted
redirectOn401Inverted(endpoint, currentPath) ==
  IF ~isOnLoginPage(currentPath) /\ isAuthCheck(endpoint)
    THEN redirectUrl(currentPath)
    ELSE NoHref

\* the assignment to window.location.href of the 401 branch, NoHref when the
\* branch assigns nothing
redirectOn401(endpoint, currentPath) ==
  IF ~isOnLoginPage(currentPath) /\ ~isAuthCheck(endpoint)
    THEN redirectUrl(currentPath)
    ELSE NoHref

\* res.ok
ok(status) == status >= 200 /\ status <= 299

statusText(status) ==
  IF status = 500 THEN "Internal Server Error"
  ELSE IF status = 404 THEN "Not Found"
  ELSE IF status = 401 THEN "Unauthorized"
  ELSE IF status = 204 THEN "No Content"
  ELSE "OK"

genericMessage(status) == <<"HTTP ", ToString(status), ": ", statusText(status)>>

\* what || takes for true, of the values a field has here: a field that is
\* absent is undefined, and the empty string is falsy as well
Truthy(v) == v # Undefined /\ v # ""

\* a variant that looks at `message` first
errorMessageMessageFirst(status, body) ==
  IF ~body.parsed THEN genericMessage(status)
  ELSE IF Truthy(body.data.message) THEN <<body.data.message>>
  ELSE IF Truthy(body.data.detail) THEN <<body.data.detail>>
  ELSE IF Truthy(body.data.error) THEN <<body.data.error>>
  ELSE genericMessage(status)

\* errorData.detail || errorData.message || errorData.error || errorMessage
errorMessage(status, body) ==
  IF ~body.parsed THEN genericMessage(status)
  ELSE IF Truthy(body.data.detail) THEN <<body.data.detail>>
  ELSE IF Truthy(body.data.message) THEN <<body.data.message>>
  ELSE IF Truthy(body.data.error) THEN <<body.data.error>>
  ELSE genericMessage(status)

\* What the network did to one call:
\*   kind "rejected"  fetch() rejected (connection refused, DNS, ...)
\*   kind "timeout"   the timer of fetchWithTimeout won the race
\*   kind "response"  fetch() resolved with `status`; `body` is what res.json()
\*                    gives: parsed with its data, or not parseable
NoBody == [parsed |-> FALSE, data |-> NoData]
Rejected == [kind |-> "rejected", status |-> 0, body |-> NoBody]
TimedOut == [kind |-> "timeout", status |-> 0, body |-> NoBody]
Response(status, body) == [kind |-> "response", status |-> status, body |-> body]

\* An Error object: message, status (0: the property is not set), details
\* (NoBody: null)
Err(message, status, details) ==
  [message |-> message, status |-> status, details |-> details]
NoError == Err(<<>>, 0, NoBody)

Thrown(error, href) ==
  [threw |-> TRUE, value |-> NoData, error |-> error, href |-> href]
Returned(value) ==
  [threw |-> FALSE, value |-> value, error |-> NoError, href |-> NoHref]

\* a variant that returns what it has when the body does not parse
parseSuccessPartial(body) == Returned(body.data)

\* try { return await res.json() } catch { throw ... }
parseSuccess(body) ==
  IF body.parsed
    THEN Returned(body.data)
    ELSE Thrown(Err(<<"Invalid JSON response from server">>, 0, NoBody), NoHref)

\* the request headers: a header that is not sent is Undefined
HeaderNames == {"Content-Type", "Accept"}
NoHeaders == [h \in HeaderNames |-> Undefined]

\* options of a caller; a property the caller leaves out is Undefined, and
\* options without `headers` spread like options with empty headers
NoOptions == [method |-> Undefined, headers |-> NoHeaders]

toUpperCase(m) ==
  IF m = "get" THEN "GET" ELSE IF m = "post" THEN "POST" ELSE m

\* a variant that sets the header for every method
defaultHeadersAlways(options) ==
  [NoHeaders EXCEPT !["Content-Type"] = "application/json"]

defaultHeaders(options) ==
  IF options.method # Undefined /\ toUpperCase(options.method) # "GET"
    THEN [NoHeaders EXCEPT !["Content-Type"] = "application/json"]
    ELSE NoHeaders

\* { ...defaultHeaders, ...options.headers }
headers(options) ==
  [h \in HeaderNames |-> IF options.headers[h] # Undefined
                           THEN options.headers[h]
                           ELSE defaultHeaders(options)[h]]

\* { ...options, headers, credentials: 'include' }
fetchOptions(options) ==
  [method |-> options.method, headers |-> headers(options),
   credentials |-> "include"]

\* apiRequest(endpoint, options) once the network has answered with `net` while
\* window.location.pathname is currentPath: what it returns or throws, and the
\* URL it assigns to window.location.href
apiRequest(endpoint, currentPath, net) ==
  IF net.kind = "rejected"
    THEN Thrown(Err(<<"Network error: ", "Failed to fetch">>, 0, NoBody), NoHref)
  ELSE IF net.kind = "timeout"
    THEN Thrown(Err(<<"Network error: ", "Request timeout">>, 0, NoBody), NoHref)
  ELSE IF net.status = 401
    THEN Thrown(Err(<<"Session expired. Please login again.">>, 401, NoBody),
                redirectOn401(endpoint, currentPath))
  ELSE IF ~ok(net.status)
    THEN Thrown(Err(errorMessage(net.status, net.body), net.status,
                    net.body), NoHref)
  ELSE parseSuccess(net.body)

\* ---------------------------------------------------------------- state
VARIABLES
  pathname,      \* window.location.pathname
  redirect,      \* router.query.redirect
  href,          \* the URL assigned to window.location.href and not yet loaded
  user,          \* AuthProvider: the customer_id of `user`, Null for user = null
  loading,       \* AuthProvider: loading
  open,          \* AgentChatPopup: open
  messages,      \* AgentChatPopup: messages, the history
  input,         \* AgentChatPage (in the popup): input
  chatLoading,   \* AgentChatPage (in the popup): loading
  loginLoading,  \* LoginPage: loading
  fresh,         \* the page component has mounted and its fetch effect has not run
  requests,      \* the calls in flight
  turns,         \* history variable: the turns submitted in this chat session
  last,          \* history variable: the handler that ran last and what it did
  session        \* the backend: what it holds of the session of this browser

vars == <<pathname, redirect, href, user, loading, open, messages, input,
          chatLoading, loginLoading, fresh, requests, turns, last, session>>

Protected == {PathOrders, PathOrderDetail}

\* a variant that keeps the popup when the customer has logged out
PopupMountedWithoutUser(u, l) == ~l

\* _app: ChatPopupGuard renders AgentChatPopup when token is set; AuthProvider
\* renders its children only when it is not loading
PopupMounted(u, l) == u # Null /\ ~l

\* a variant that shows the chat button on the landing view as well
EntryPointShownOnRoot(u, l, p) == PopupMounted(u, l) /\ p # PathLogin

\* AgentChatPopup renders its button (the chat entry point) when the customer
\* is logged in and the route is neither the login nor the landing view
EntryPointShown(u, l, p) == PopupMounted(u, l) /\ p # PathLogin /\ p # PathRoot

\* AgentChatPopup renders AgentChatPage when it is open and renders at all
ChatMounted(u, l, p, o) == EntryPointShown(u, l, p) /\ o

\* what the page component of a guarded route returns once AuthProvider
\* renders its children: OrderDetailPage returns null when not logged in,
\* OrdersPage has no such return and renders its view either way
Renders(p, loggedIn) == IF p = PathOrderDetail THEN loggedIn ELSE TRUE

isLoggedIn == user # Null

\* router.asPath
asPath ==
  pathname \o (IF redirect # NoRedirect
                 THEN <<"?redirect=">> \o encodeURIComponent(redirect)
                 ELSE <<>>)

\* A call in flight.  phase "fetch": fetch() has not settled; phase "body": it
\* resolved with a status other than 401 and res.json() is pending.  inst: the AgentChatPage
\* that issued it is still mounted; sess: so is its AgentChatPopup.
Request(op, endpoint, turn) ==
  [op |-> op, endpoint |-> endpoint, turn |-> turn, phase |-> "fetch",
   inst |-> op = "agent", sess |-> op = "agent"]

HasRoom == Cardinality(requests) < MaxInFlight

\* a call can be issued: there is room for it, and it is not the copy of a
\* call that has not been answered at all
CanIssue(op, endpoint) == HasRoom /\ Request(op, endpoint, 0) \notin requests

\* a variant that sends the request a second time
IssueTwice(reqs, op, endpoint, turn) ==
  reqs \cup {Request(op, endpoint, turn),
             [Request(op, endpoint, turn) EXCEPT !.phase = "body"]}

Issue(reqs, op, endpoint, turn) == reqs \cup {Request(op, endpoint, turn)}

\* what a handler did, for the history variable `last`: the call it handled
\* and how that ended, the path and the user it found, the error it got, the
\* navigations it made and whether an error escaped it
Step(op) ==
  [op |-> op, endpoint |-> "", kind |-> "", pathAt |-> <<>>, userAt |-> Null,
   sess |-> FALSE, turn |-> 0, arg |-> <<>>, error |-> NoError,
   escaped |-> FALSE, navs |-> <<>>]

Event(op) == [Step(op) EXCEPT !.pathAt = pathname, !.userAt = user]

Nav(by, to) == [by |-> by, to |-> to]

\* React commits the new state: a component that is no longer rendered loses
\* its state, and the calls it issued lose their component
CommitFresh(u, l, p, o, m, tn, i, cl, ll, rq, f) ==
  LET popup == PopupMounted(u, l)
      page == ChatMounted(u, l, p, o)
  IN  /\ user' = u
      /\ loading' = l
      /\ pathname' = p
      /\ open' = (popup /\ o)
      /\ messages' = IF popup THEN m ELSE <<>>
      /\ turns' = IF popup THEN tn ELSE <<>>
      /\ input' = IF page THEN i ELSE <<>>
      /\ chatLoading' = (page /\ cl)
      /\ loginLoading' = (~l /\ p = PathLogin /\ ll)
      /\ fresh' = (p \in Protected /\ (l # loading \/ p # pathname \/ f))
      /\ requests' = {[r EXCEPT !.inst = r.inst /\ page,
                                !.sess = r.sess /\ popup] : r \in rq}

Commit(u, l, p, o, m, tn, i, cl, ll, rq) ==
  CommitFresh(u, l, p, o, m, tn, i, cl, ll, rq, fresh)

\* the state a page load constructs: AuthProvider mounts with user = null and
\* loading = true, and its effect calls checkAuthStatus(), which requests /me
Loaded(url) ==
  /\ pathname = PathnameOf(url)
  /\ redirect = RedirectOf(url)
  /\ href = NoHref
  /\ user = Null
  /\ loading = TRUE
  /\ open = FALSE
  /\ messages = <<>>
  /\ input = <<>>
  /\ chatLoading = FALSE
  /\ loginLoading = FALSE
  /\ fresh = (PathnameOf(url) \in Protected)
  /\ requests = {Request("me", "/me", 0)}
  /\ turns = <<>>

Init ==
  /\ \E url \in Pages : Loaded(url)
  /\ last = Step("load")
  /\ session = Unconstrained

\* ------------------------------------------------------------- handlers
\* a variant that never clears `loading`
checkAuthStatusStaysLoading(res) ==
  [user |-> IF res.threw THEN Null ELSE res.value.customer_id,
   loading |-> TRUE,
   escaped |-> FALSE]

\* a variant that clears `loading` in the try block only
checkAuthStatusNoFinally(res) ==
  [user |-> IF res.threw THEN Null ELSE res.value.customer_id,
   loading |-> res.threw,
   escaped |-> FALSE]

\* AuthProvider.checkAuthStatus after its apiRequest('/me') settled with res:
\* try / catch / finally, so nothing escapes
checkAuthStatus(res) ==
  [user |-> IF res.threw THEN Null ELSE res.value.customer_id,
   loading |-> FALSE,
   escaped |-> FALSE]

\* a variant that records no identity
loginRecordsNothing(customer_id) == [user |-> Null]

\* AuthProvider.login
login(customer_id) == [user |-> customer_id]

\* a variant that clears the user in the try block only
logoutNoFinally(res) ==
  [user |-> IF res.threw THEN user ELSE Null, escaped |-> FALSE]

\* AuthProvider.logout after its apiRequest('/logout') settled with res
logout(res) == [user |-> Null, escaped |-> FALSE]

\* Header.handleLogout once logout() settled: both branches push '/login'
handleLogout(threw) == [push |-> PathLogin, escaped |-> FALSE]

Apology == <<"Sorry, something went wrong. Please try again later.">>

UserMessage(text) == [sender |-> "user", text |-> text, orderSummary |-> Undefined]

\* order_summary || null
OrNull(v) == IF v = Undefined THEN Null ELSE v

\* a variant that shows the error's message
sendMessageSettledLeaky(res) ==
  [message |-> IF res.threw
                 THEN [sender |-> "agent", text |-> res.error.message,
                       orderSummary |-> Undefined]
                 ELSE [sender |-> "agent", text |-> res.value.reply,
                       orderSummary |-> OrNull(res.value.order_summary)],
   loading |-> FALSE,
   escaped |-> FALSE]

\* sendMessage after its apiRequest('/agent/') settled with res: the message
\* it appends
sendMessageSettled(res) ==
  [message |-> IF res.threw
                 THEN [sender |-> "agent", text |-> Apology, orderSummary |-> Undefined]
                 ELSE [sender |-> "agent", text |-> res.value.reply,
                       orderSummary |-> OrNull(res.value.order_summary)],
   loading |-> FALSE,
   escaped |-> FALSE]

\* a variant that sets the history to the new message
replaceMessages(prev, message) == <<message>>

\* setMessages(prev => [...prev, message])
appendMessage(prev, message) == Append(prev, message)

\* a variant that passes the sender on as the role
formatMessagesSenderAsRole(msgs) ==
  [k \in 1..Len(msgs) |-> [role |-> msgs[k].sender, content |-> msgs[k].text]]

\* formatMessagesForBackend over the messages of the render that submits
formatMessagesForBackend(msgs) ==
  [k \in 1..Len(msgs) |->
     [role |-> IF msgs[k].sender = "agent" THEN "assistant" ELSE "user",
      content |-> msgs[k].text]]

\* ---------------------------------------------------------- environment
\* the replies of the agent: one without and one with an order summary
AgentPayloads ==
  {[NoData EXCEPT !.reply = <<"r1">>],
   [NoData EXCEPT !.reply = <<"r2">>, !.order_summary = "SO1"]}

\* the bodies the backend may send to a call of `op` with `status`
Bodies(op, status) ==
  {NoBody} \cup
  IF status # 200
    THEN {[parsed |-> TRUE, data |-> [NoData EXCEPT !.detail = "boom"]]}
  ELSE IF op = "me" \/ op = "validate"
    THEN {[parsed |-> TRUE, data |-> [NoData EXCEPT !.customer_id = c]] : c \in Customers}
  ELSE IF op = "agent"
    THEN {[parsed |-> TRUE, data |-> d] : d \in AgentPayloads}
  ELSE {[parsed |-> TRUE, data |-> NoData]}

\* the variant of RequestOutcome a settled call ended in
Outcome(net) ==
  IF net.kind = "rejected" THEN "network"
  ELSE IF net.kind = "timeout" THEN "timeout"
  ELSE IF net.status = 401 THEN "auth"
  ELSE IF ~ok(net.status) THEN "http"
  ELSE IF net.body.parsed THEN "success"
  ELSE "parse"

\* -------------------------------------------------------------- effects
\* a variant that does not wait for AuthProvider to render its children
GuardPendingWhileLoading == ~isLoggedIn /\ pathname \in Protected

\* the guard effect of OrdersPage and OrderDetailPage
GuardPending == ~loading /\ ~isLoggedIn /\ pathname \in Protected

\* the "already logged in" effect of LoginPage
LoginEffectPending ==
  ~loading /\ isLoggedIn /\ pathname = PathLogin /\ ~loginLoading

\* the fetch effect of OrdersPage and OrderDetailPage
FetchPending ==
  ~loading /\ isLoggedIn /\ pathname \in Protected /\ fresh /\ HasRoom

EffectPending == GuardPending \/ LoginEffectPending \/ FetchPending

\* effects run before the next event is dispatched, and nothing is dispatched
\* once the browser has been told to leave the page
Quiet == href = NoHref /\ ~EffectPending

\* the user can act on what is rendered
Interactive == Quiet /\ ~loading

GuardRedirect ==
  /\ href = NoHref
  /\ GuardPending
  /\ Commit(user, loading, PathLogin, open, messages, turns, input, chatLoading,
            FALSE, requests)
  /\ redirect' = NoRedirect
  /\ last' = [Step("guard") EXCEPT !.navs = <<Nav("guard", PathLogin)>>]
  /\ UNCHANGED <<href, session>>

\* where LoginPage sends a logged-in customer
afterLogin(redirectTo, current) ==
  IF redirectTo # NoRedirect /\ redirectTo # PathLogin /\ redirectTo # current
    THEN redirectTo
    ELSE PathOrders

LoginEffect ==
  /\ href = NoHref
  /\ LoginEffectPending
  /\ LET to == afterLogin(redirect, asPath)
     IN  /\ Commit(user, loading, PathnameOf(to), open, messages, turns, input,
                   chatLoading, FALSE, requests)
         /\ redirect' = RedirectOf(to)
         /\ last' = [Step("loginEffect") EXCEPT !.navs = <<Nav("login", to)>>]
  /\ UNCHANGED <<href, session>>

FetchEndpoint(p) == IF p = PathOrders THEN "/orders/?page=1" ELSE "/orders/SO1"

FetchOnMount ==
  /\ href = NoHref
  /\ FetchPending
  /\ ~GuardPending
  /\ CommitFresh(user, loading, pathname, open, messages, turns, input,
                 chatLoading, loginLoading,
                 Issue(requests, IF pathname = PathOrders THEN "orders" ELSE "detail",
                       FetchEndpoint(pathname), 0),
                 FALSE)
  /\ last' = Step("fetch")
  /\ UNCHANGED <<href, redirect, session>>

\* ---------------------------------------------------------- the browser
\* the browser follows the assignment to window.location.href: the document
\* is replaced, every component state and every pending call of the old one
\* is gone
PageLoad ==
  /\ href # NoHref
  /\ Commit(Null, TRUE, PathnameOf(href), FALSE, <<>>, <<>>, <<>>, FALSE, FALSE,
            {Request("me", "/me", 0)})
  /\ redirect' = RedirectOf(href)
  /\ href' = NoHref
  /\ last' = [Step("load") EXCEPT !.navs = <<Nav("browser", href)>>]
  /\ UNCHANGED session

\* the links of the rendered page: the Header logo and the login page's back
\* link lead to '/', Home to '/orders' or '/login', the order list to an
\* order, the order to the list
Links(p, loggedIn) ==
  (IF p # PathRoot THEN {PathRoot} ELSE {})
  \cup (IF p = PathRoot /\ loggedIn THEN {PathOrders} ELSE {})
  \cup (IF p = PathRoot /\ ~loggedIn THEN {PathLogin} ELSE {})
  \cup (IF p = PathOrders THEN {PathOrderDetail} ELSE {})
  \cup (IF p = PathOrderDetail THEN {PathOrders} ELSE {})

Link ==
  /\ Interactive
  /\ \E to \in Links(pathname, isLoggedIn) :
       /\ to \in Protected => HasRoom
       /\ Commit(user, loading, to, open, messages, turns, input, chatLoading,
                 FALSE, requests)
       /\ last' = [Step("link") EXCEPT !.navs = <<Nav("link", to)>>]
  /\ redirect' = NoRedirect
  /\ UNCHANGED <<href, session>>

\* ---------------------------------------------------------- user actions
\* Header: the Logout button is rendered when isLoggedIn
clickLogout ==
  /\ Interactive
  /\ isLoggedIn
  /\ CanIssue("logout", "/logout")
  /\ Commit(user, loading, pathname, open, messages, turns, input, chatLoading,
            loginLoading, Issue(requests, "logout", "/logout", 0))
  /\ last' = Step("user")
  /\ UNCHANGED <<href, redirect, session>>

\* LoginPage.handleSubmit up to its fetch of /token
handleSubmit ==
  /\ Interactive
  /\ pathname = PathLogin
  /\ ~loginLoading
  /\ HasRoom
  /\ Commit(user, loading, pathname, open, messages, turns, input, chatLoading,
            TRUE, Issue(requests, "token", "/token", 0))
  /\ last' = Step("user")
  /\ UNCHANGED <<href, redirect, session>>

\* lib/api checkAuthStatus(): the probe of /validate
validate ==
  /\ Interactive
  /\ CanIssue("validate", "/validate")
  /\ Commit(user, loading, pathname, open, messages, turns, input, chatLoading,
            loginLoading, Issue(requests, "validate", "/validate", 0))
  /\ last' = Step("user")
  /\ UNCHANGED <<href, redirect, session>>

\* what the customer searches for: nothing, or an order number
SearchTerms == {<<>>, <<"SO1">>}

\* OrdersPage.handleSearch up to its await.  The form is there whenever
\* OrdersPage is rendered, which it is for a customer who is not logged in
\* too until the route pushed by its guard effect has replaced it; its button
\* is disabled while a call of the page is in flight.  A blank term calls
\* fetchOrders(1), which returns at once when not logged in.
handleSearch ==
  /\ href = NoHref
  /\ ~loading
  /\ pathname = PathOrders
  /\ Renders(pathname, isLoggedIn)
  /\ ~FetchPending
  /\ ~\E r \in requests : r.op \in {"orders", "search"}
  /\ HasRoom
  /\ \E term \in SearchTerms :
       Commit(user, loading, pathname, open, messages, turns, input, chatLoading,
              loginLoading,
              IF trim(term) # <<>>
                THEN Issue(requests, "search", "/orders/?tranid=SO1", 0)
              ELSE IF isLoggedIn
                THEN Issue(requests, "orders", FetchEndpoint(PathOrders), 0)
              ELSE requests)
  /\ last' = Event("handleSearch")
  /\ UNCHANGED <<href, redirect, session>>

\* AgentChatPopup.toggleChat: the button is rendered with the popup
toggleChat ==
  /\ Interactive
  /\ EntryPointShown(user, loading, pathname)
  /\ Commit(user, loading, pathname, ~open, messages, turns, input, chatLoading,
            loginLoading, requests)
  /\ last' = Step("user")
  /\ UNCHANGED <<href, redirect, session>>

\* the text field of AgentChatPage, disabled while loading
setInput ==
  /\ Interactive
  /\ ChatMounted(user, loading, pathname, open)
  /\ ~chatLoading
  /\ \E v \in Inputs :
       /\ v # input
       /\ Commit(user, loading, pathname, open, messages, turns, v, chatLoading,
                 loginLoading, requests)
  /\ last' = Step("user")
  /\ UNCHANGED <<href, redirect, session>>

Turn(text, prev) ==
  [text |-> text, previous_messages |-> prev, state |-> "pending",
   reply |-> <<>>, order_summary |-> Undefined]

\* AgentChatPage.sendMessage up to its await; the form submits while the text
\* field is enabled
sendMessage ==
  /\ Interactive
  /\ ChatMounted(user, loading, pathname, open)
  /\ ~chatLoading
  /\ LET trimmedInput == trim(input)
     IN  IF trimmedInput # <<>>
           THEN /\ HasRoom
                /\ Len(turns) < MaxTurns
                /\ Commit(user, loading, pathname, open,
                          appendMessage(messages, UserMessage(trimmedInput)),
                          Append(turns, Turn(trimmedInput,
                                             formatMessagesForBackend(messages))),
                          <<>>, TRUE, loginLoading,
                          Issue(requests, "agent", "/agent/", Len(turns) + 1))
           ELSE Commit(user, loading, pathname, open, messages, turns, input,
                       chatLoading, loginLoading, requests)
  /\ last' = [Step("sendMessage") EXCEPT !.arg = input]
  /\ UNCHANGED <<href, redirect, session>>

\* ---------------------------------------------------------- the backend
\* The backend is not part of this code.  `session` is what is assumed of
\* it: Unconstrained, it answers any call in any way; "valid" or "invalid",
\* it answers 401 exactly while it holds no valid session for the browser,
\* and the session becomes valid by a login and invalid by a logout or by
\* expiring.
Answers401(unauthorized) ==
  session = Unconstrained \/ (unauthorized <=> session = "invalid")

\* the session once the backend has answered the call of `op` with `net`
AfterAnswer(op, net) ==
  IF session # Unconstrained /\ op = "logout" /\ net.kind = "response"
     /\ ok(net.status)
    THEN "invalid"
    ELSE session

\* the session once the backend has accepted the credentials
AfterLogin == IF session = Unconstrained THEN Unconstrained ELSE "valid"

\* the session expires
SessionExpires ==
  /\ session = "valid"
  /\ session' = "invalid"
  /\ last' = Step("expire")
  /\ UNCHANGED <<pathname, redirect, href, user, loading, open, messages,
                 input, chatLoading, loginLoading, fresh, requests, turns>>

\* ---------------------------------------------------------- the network
\* the continuation of the caller of apiRequest, by caller, once the call r
\* settled with the network outcome net
Settle(r, net) ==
  LET res == apiRequest(r.endpoint, pathname, net)
      rest == requests \ {r}
      hard == IF res.href # NoHref THEN <<Nav("apiRequest", res.href)>> ELSE <<>>
      ev == [Event(r.op) EXCEPT !.endpoint = r.endpoint, !.kind = Outcome(net),
                                !.sess = r.sess, !.turn = r.turn,
                                !.error = res.error, !.navs = hard]
  IN  /\ href' = res.href
      /\ session' = AfterAnswer(r.op, net)
      /\ IF r.op = "me" THEN
           LET h == checkAuthStatus(res)
           IN  /\ Commit(h.user, h.loading, pathname, open, messages, turns, input,
                         chatLoading, loginLoading, rest)
               /\ redirect' = redirect
               /\ last' = [ev EXCEPT !.escaped = h.escaped]
         ELSE IF r.op = "logout" THEN
           LET h == logout(res)
               g == handleLogout(h.escaped)
               to == IF g.push # <<>> THEN g.push ELSE pathname
           IN  /\ Commit(h.user, loading, to, open, messages, turns, input,
                         chatLoading, loginLoading, rest)
               /\ redirect' = IF g.push # <<>> THEN NoRedirect ELSE redirect
               /\ last' = [ev EXCEPT
                             !.escaped = g.escaped,
                             !.navs = hard \o (IF g.push # <<>>
                                                 THEN <<Nav("handleLogout", g.push)>>
                                                 ELSE <<>>)]
         ELSE IF r.op = "agent" THEN
           LET h == sendMessageSettled(res)
           IN  /\ Commit(user, loading, pathname, open,
                         IF r.sess THEN appendMessage(messages, h.message)
                                   ELSE messages,
                         IF r.sess
                           THEN [turns EXCEPT ![r.turn] =
                                   [@ EXCEPT !.state = IF res.threw THEN "failed"
                                                        ELSE "success",
                                             !.reply = res.value.reply,
                                             !.order_summary = res.value.order_summary]]
                           ELSE turns,
                         input,
                         IF r.inst THEN h.loading ELSE chatLoading,
                         loginLoading, rest)
               /\ redirect' = redirect
               /\ last' = [ev EXCEPT !.escaped = h.escaped]
         ELSE
           /\ Commit(user, loading, pathname, open, messages, turns, input,
                     chatLoading, loginLoading, rest)
           /\ redirect' = redirect
           /\ last' = ev

ViaApi(r) == r.op # "token"

\* fetch() resolves with the response headers; a 401 is handled without
\* reading the body
HeadersArrive ==
  /\ Quiet
  /\ \E r \in requests, unauthorized \in BOOLEAN :
       /\ ViaApi(r)
       /\ r.phase = "fetch"
       /\ Answers401(unauthorized)
       /\ IF unauthorized
            THEN Settle(r, Response(401, NoBody))
            ELSE /\ requests' = (requests \ {r}) \cup {[r EXCEPT !.phase = "body"]}
                 /\ last' = Step("headers")
                 /\ UNCHANGED <<pathname, redirect, href, user, loading, open,
                                messages, input, chatLoading, loginLoading, fresh,
                                turns, session>>

\* res.json() settles: the body arrived and parsed, or did not parse
BodyArrives ==
  /\ Quiet
  /\ \E r \in requests :
       /\ ViaApi(r)
       /\ r.phase = "body"
       /\ \E status \in Statuses \ {401} :
            \E body \in Bodies(r.op, status) : Settle(r, Response(status, body))

\* fetch() rejects
NetworkFails ==
  /\ Quiet
  /\ \E r \in requests :
       /\ ViaApi(r)
       /\ r.phase = "fetch"
       /\ Settle(r, Rejected)

\* the timer of fetchWithTimeout fires: it rejects the race, which matters
\* only while fetch() has not settled it
fetchWithTimeout(r) ==
  IF r.phase = "fetch" THEN "reject" ELSE "ignored"

TimerFires ==
  /\ Quiet
  /\ \E r \in requests :
       /\ ViaApi(r)
       /\ IF fetchWithTimeout(r) = "reject"
            THEN Settle(r, TimedOut)
            ELSE /\ last' = [Step("timer") EXCEPT !.endpoint = r.endpoint,
                                                  !.turn = r.turn,
                                                  !.sess = r.sess]
                 /\ UNCHANGED <<pathname, redirect, href, user, loading, open,
                                messages, input, chatLoading, loginLoading, fresh,
                                requests, turns, session>>

\* LoginPage.handleSubmit after its fetch of /token settled: on success
\* login() and router.replace, on any failure the error is shown
TokenSettles ==
  /\ Quiet
  /\ \E r \in requests :
       /\ r.op = "token"
       /\ \/ \E c \in Customers :
               LET to == IF redirect # NoRedirect /\ redirect # PathLogin
                           THEN redirect ELSE PathOrders
               IN  /\ Commit(login(c).user, loading, PathnameOf(to), open, messages,
                             turns, input, chatLoading, FALSE, requests \ {r})
                   /\ redirect' = RedirectOf(to)
                   /\ session' = AfterLogin
                   /\ last' = [Step("token") EXCEPT !.kind = "success",
                                                    !.arg = <<c>>,
                                                    !.navs = <<Nav("login", to)>>]
          \/ /\ Commit(user, loading, pathname, open, messages, turns, input,
                       chatLoading, FALSE, requests \ {r})
             /\ redirect' = redirect
             /\ session' = session
             /\ last' = [Step("token") EXCEPT !.kind = "http"]
  /\ UNCHANGED href

Next ==
  \/ PageLoad
  \/ GuardRedirect
  \/ LoginEffect
  \/ FetchOnMount
  \/ Link
  \/ clickLogout
  \/ handleSubmit
  \/ validate
  \/ handleSearch
  \/ toggleChat
  \/ setInput
  \/ sendMessage
  \/ HeadersArrive
  \/ BodyArrives
  \/ NetworkFails
  \/ TimerFires
  \/ TokenSettles

Spec == Init /\ [][Next]_vars

\* ------------------------------------------------ navigation on its own
\* The pages, the store and the calls they make, without the chat, against a
\* backend that answers by the session it holds: the browser is started on
\* any page, also on the login view with any redirect target, with or
\* without a valid session.  What the browser, React and the network do by
\* themselves is bound to happen; what the customer does and the expiry of
\* the session are not.
StartUrls == Pages \cup {redirectUrl(p) : p \in Pages}

InitNav ==
  /\ \E url \in StartUrls : Loaded(url)
  /\ last = Step("load")
  /\ session \in {"valid", "invalid"}

NextNav ==
  \/ PageLoad
  \/ GuardRedirect
  \/ LoginEffect
  \/ FetchOnMount
  \/ Link
  \/ clickLogout
  \/ handleSubmit
  \/ HeadersArrive
  \/ BodyArrives
  \/ NetworkFails
  \/ TimerFires
  \/ TokenSettles
  \/ SessionExpires

SpecNav ==
  /\ InitNav
  /\ [][NextNav]_vars
  /\ WF_vars(PageLoad)
  /\ WF_vars(GuardRedirect)
  /\ WF_vars(LoginEffect)
  /\ WF_vars(FetchOnMount)
  /\ WF_vars(HeadersArrive)
  /\ WF_vars(BodyArrives)
  /\ WF_vars(TokenSettles)

\* ------------------------------------------------- apiRequest on its own
\* apiRequest as a function of its caller and of the network: one call at a
\* time, made from any page with any endpoint and any options, answered in
\* any way.  `requests` holds the call in flight, `last` what the last call
\* gave; the components' state stays as a resolved store without user has it.
Endpoints == {"/me", "/validate", "/logout", "/agent/", "/orders/SO1"}

Methods == {Undefined, "GET", "get", "POST", "post", "DELETE"}

CallerHeaders ==
  {NoHeaders,
   [NoHeaders EXCEPT !["Accept"] = "text/html"],
   [NoHeaders EXCEPT !["Content-Type"] = "application/json"],
   [NoHeaders EXCEPT !["Content-Type"] = "text/plain"]}

AllOptions == {[method |-> m, headers |-> h] : m \in Methods, h \in CallerHeaders}

ApiStatuses == {200, 204, 401, 404, 500}

\* the values of a field of an error body: absent, empty, a text
FieldValues(text) == {Undefined, "", text}

\* the bodies res.json() may give for a status: none that parses, or an
\* object with any of the fields read by the caller
ApiBodies(status) ==
  {NoBody} \cup
  IF ok(status)
    THEN {[parsed |-> TRUE, data |-> NoData],
          [parsed |-> TRUE, data |-> [NoData EXCEPT !.customer_id = "c1"]]}
    ELSE {[parsed |-> TRUE,
           data |-> [NoData EXCEPT !.detail = d, !.message = m, !.error = e]] :
            d \in FieldValues("d"), m \in FieldValues("m"), e \in FieldValues("e")}

NoNet == [kind |-> "", status |-> 0, body |-> NoBody]

\* a call of apiRequest: what the caller passed, what is handed to fetch()
ApiCallOf(endpoint, options) ==
  [endpoint |-> endpoint, options |-> options, sent |-> fetchOptions(options),
   phase |-> "fetch", status |-> 0]

NoCall == ApiCallOf("", NoOptions)

ApiStep(op) == [op |-> op, call |-> NoCall, net |-> NoNet, res |-> Returned(NoData)]

InitApi ==
  /\ pathname \in Pages
  /\ redirect = NoRedirect
  /\ href = NoHref
  /\ user = Null
  /\ loading = FALSE
  /\ open = FALSE
  /\ messages = <<>>
  /\ input = <<>>
  /\ chatLoading = FALSE
  /\ loginLoading = FALSE
  /\ fresh = FALSE
  /\ requests = {}
  /\ turns = <<>>
  /\ last = ApiStep("load")
  /\ session = Unconstrained

ApiUnchanged ==
  UNCHANGED <<redirect, user, loading, open, messages, input, chatLoading,
              loginLoading, fresh, turns, session>>

\* the call settles: apiRequest returns or throws, once
ApiSettle(r, net) ==
  LET res == apiRequest(r.endpoint, pathname, net)
  IN  /\ requests' = requests \ {r}
      /\ href' = res.href
      /\ last' = [ApiStep("settled") EXCEPT !.call = r, !.net = net, !.res = res]
      /\ UNCHANGED pathname
      /\ ApiUnchanged

ApiCall ==
  /\ href = NoHref
  /\ requests = {}
  /\ \E endpoint \in Endpoints, options \in AllOptions :
       requests' = {ApiCallOf(endpoint, options)}
  /\ last' = ApiStep("call")
  /\ UNCHANGED <<pathname, href>>
  /\ ApiUnchanged

\* fetch() resolves with the status line and the headers
ApiHeadersArrive ==
  \E r \in requests, status \in ApiStatuses :
    /\ r.phase = "fetch"
    /\ IF status = 401
         THEN ApiSettle(r, Response(401, NoBody))
         ELSE /\ requests' = {[r EXCEPT !.phase = "body", !.status = status]}
              /\ last' = ApiStep("headers")
              /\ UNCHANGED <<pathname, href>>
              /\ ApiUnchanged

ApiBodyArrives ==
  \E r \in requests :
    /\ r.phase = "body"
    /\ \E body \in ApiBodies(r.status) : ApiSettle(r, Response(r.status, body))

ApiNetworkFails ==
  \E r \in requests :
    /\ r.phase = "fetch"
    /\ ApiSettle(r, Rejected)

ApiTimerFires ==
  \E r \in requests :
    /\ fetchWithTimeout(r) = "reject"
    /\ ApiSettle(r, TimedOut)

\* the browser follows the assignment to window.location.href
ApiPageLoad ==
  /\ href # NoHref
  /\ pathname' = PathnameOf(href)
  /\ href' = NoHref
  /\ requests' = {}
  /\ last' = ApiStep("load")
  /\ ApiUnchanged

NextApi ==
  \/ ApiCall
  \/ ApiHeadersArrive
  \/ ApiBodyArrives
  \/ ApiNetworkFails
  \/ ApiTimerFires
  \/ ApiPageLoad

SpecApi == InitApi /\ [][NextApi]_vars

\* --------------------------------------------------------------- claims
ApiNavs == SelectSeq(last.navs, LAMBDA n : n.by = "apiRequest")

Got401 == last.kind = "auth" /\ last.op # "token"

\* C1 as stated: a 401 on an endpoint other than /me and /validate, received
\* on a page other than /login, makes apiRequest navigate exactly once, to
\* /login with the redirect parameter equal to the current path, for every
\* path, '/' included; on /login and for the two probes it does not navigate.
C1_RedirectCarriesEveryPath ==
  Got401 =>
    IF ~(last.endpoint \in {"/me", "/validate"}) /\ last.pathAt # PathLogin
      THEN /\ Len(ApiNavs) = 1
           /\ href = ApiNavs[1].to
           /\ PathnameOf(href) = PathLogin
           /\ RedirectOf(href) = last.pathAt
      ELSE ApiNavs = <<>> /\ href = NoHref

\* C1 amended: as above, but from '/' the target is '/login' without a
\* redirect parameter; from every other path the parameter is the path.
C1_RedirectOn401 ==
  Got401 =>
    IF ~(last.endpoint \in {"/me", "/validate"}) /\ last.pathAt # PathLogin
      THEN /\ Len(ApiNavs) = 1
           /\ href = ApiNavs[1].to
           /\ PathnameOf(href) = PathLogin
           /\ RedirectOf(href) = IF last.pathAt = PathRoot THEN NoRedirect
                                                          ELSE last.pathAt
           /\ last.pathAt = PathRoot => href = PathLogin
      ELSE ApiNavs = <<>> /\ href = NoHref

C1_Witness ==
  /\ Got401
  /\ last.op = "orders"
  /\ last.pathAt = PathOrders
  /\ href = <<"/", "login", "?redirect=", "%2F", "orders">>

\* C2 as stated: a 401 received by any call while Authenticated destroys the
\* session identity on every page and for every endpoint: once the call is
\* handled the user is null, or the page is being replaced by one whose
\* store starts without a user.
C2_Every401DestroysIdentity ==
  (Got401 /\ last.userAt # Null) => (user = Null \/ href # NoHref)

\* C2 amended: a 401 received while Authenticated on an endpoint other than
\* the probes and on a page other than /login makes the browser load the
\* login view, and the store of the loaded page starts with user = null and
\* loading = true; apiRequest itself never changes the user, so a 401 on a
\* probe or on /login leaves the identity in place unless the caller is
\* logout().
C2_401ReloadsUnlessProbeOrLogin ==
  /\ (Got401 /\ last.userAt # Null) =>
       /\ last.op # "logout" => user = last.userAt
       /\ IF last.endpoint \in {"/me", "/validate"} \/ last.pathAt = PathLogin
            THEN href = NoHref
            ELSE PathnameOf(href) = PathLogin
  /\ last.op = "load" => (user = Null /\ loading)

C2_Witness ==
  /\ Got401
  /\ last.userAt # Null
  /\ last.op = "agent"
  /\ user = last.userAt
  /\ PathnameOf(href) = PathLogin

AgentMessage(t) ==
  [sender |-> "agent", text |-> t.reply, orderSummary |-> OrNull(t.order_summary)]

\* C3: after N turns that each got a successful response, the history has 2N
\* messages, the user message of turn i at 2i-1 and its agent message, with
\* the reply and the summary returned for turn i, at 2i.
C3_HistoryAfterNTurns ==
  (\A i \in 1..Len(turns) : turns[i].state = "success") =>
    /\ Len(messages) = 2 * Len(turns)
    /\ \A i \in 1..Len(turns) :
         /\ messages[2 * i - 1] = UserMessage(turns[i].text)
         /\ messages[2 * i] = AgentMessage(turns[i])

FailedTurn == last.op = "agent" /\ last.kind # "success"

ApologyAppended ==
  /\ Len(messages) >= 2
  /\ messages[Len(messages)] =
       [sender |-> "agent", text |-> Apology, orderSummary |-> Undefined]
  /\ \E k \in 1..(Len(messages) - 1) :
       messages[k] = UserMessage(turns[last.turn].text)
  /\ \A k \in 1..Len(last.error.message) :
       \A j \in 1..Len(Apology) : Apology[j] # last.error.message[k]
  /\ ~last.escaped

\* C4 as stated: every turn whose request fails ends with the fixed apology
\* appended to the history after the turn's user message, and no error
\* leaves sendMessage.
C4_EveryFailureAppendsApology == FailedTurn => ApologyAppended

\* C4 amended: the same for every turn whose chat popup is still mounted
\* when the request fails; after a logout the history is gone and the late
\* failure appends nothing (still no error leaves sendMessage).
C4_FailureAppendsApology ==
  FailedTurn =>
    /\ ~last.escaped
    /\ last.sess => ApologyAppended

C4_Witness ==
  /\ FailedTurn
  /\ last.sess
  /\ last.kind = "network"
  /\ Len(messages) = 2
  /\ messages[2].text = Apology

IsBlank(s) == \A k \in 1..Len(s) : s[k] = " "

\* C5: sendMessage with an empty or whitespace-only input leaves the
\* history, the calls in flight, the loading flag and the input as they are.
C5_BlankSubmitIsNoOp ==
  [][(last'.op = "sendMessage" /\ IsBlank(last'.arg)) =>
       UNCHANGED <<messages, requests, chatLoading, input, turns>>]_vars

C5_Witness ==
  /\ last.op = "sendMessage"
  /\ last.arg = <<" ", " ">>
  /\ Len(messages) = 2
  /\ ~chatLoading

\* C6: at most one turn of the chat session is in flight.
C6_OneTurnInFlight ==
  Cardinality({r \in requests : r.op = "agent" /\ r.sess}) <= 1

\* C7: the history only grows by appending, one message a step: a user
\* message when a turn is submitted, an agent message when a pending turn
\* settles; it is emptied only when the chat popup goes (logout, page load).
C7_HistoryAppendOnly ==
  [][\/ messages' = messages
     \/ /\ messages' = <<>>
        /\ ~PopupMounted(user', loading')
     \/ /\ Len(messages') = Len(messages) + 1
        /\ IsPrefix(messages, messages')
        /\ IF messages'[Len(messages')].sender = "user"
             THEN /\ Len(turns') = Len(turns) + 1
                  /\ IsPrefix(turns, turns')
                  /\ turns'[Len(turns')].state = "pending"
             ELSE /\ Len(turns') = Len(turns)
                  /\ \E i \in 1..Len(turns) :
                       /\ turns[i].state = "pending"
                       /\ turns'[i].state # "pending"
                       /\ \A j \in 1..Len(turns) : j # i => turns'[j] = turns[j]]_vars

C7_Witness ==
  /\ Len(messages) = 4
  /\ messages[1].sender = "user"
  /\ messages[2].sender = "agent"
  /\ messages[3].sender = "user"
  /\ messages[4].sender = "agent"

\* C8: when the identity check fails, in any way, the store is
\* Unauthenticated and no longer loading, no error left checkAuthStatus and
\* the check navigated nowhere.
C8_FailedCheckEndsUnauthenticated ==
  (last.op = "me" /\ last.kind # "success") =>
    /\ user = Null
    /\ ~loading
    /\ ~last.escaped
    /\ last.navs = <<>>
    /\ href = NoHref
    /\ pathname = last.pathAt

C8_Witness ==
  /\ last.op = "me"
  /\ last.kind = "auth"
  /\ last.pathAt = PathOrders
  /\ user = Null
  /\ ~loading

\* C9: once the timer of a call has fired the call is settled, whether the
\* server had sent no headers or had sent headers and not finished the body.
C9_TimerSettlesCall ==
  last.op = "timer" =>
    ~\E r \in requests : r.endpoint = last.endpoint /\ r.turn = last.turn
                           /\ r.phase = "body"

\* C10: when logout() has settled, whatever the outcome of POST /logout, the
\* user is null, nothing was thrown, and handleLogout has pushed /login.
C10_LogoutAlwaysClears ==
  last.op = "logout" =>
    /\ user = Null
    /\ ~last.escaped
    /\ \E k \in 1..Len(last.navs) : last.navs[k] = Nav("handleLogout", PathLogin)
    /\ pathname = PathLogin

C10_Witness ==
  /\ last.op = "logout"
  /\ last.kind = "timeout"
  /\ last.userAt # Null
  /\ user = Null
  /\ pathname = PathLogin

\* C11: a store starts Unknown (loading, no user); it leaves Unknown in the
\* step in which its identity check settles and in no other, and never
\* becomes Unknown again; once resolved, the user is set only by login() (the
\* token exchange succeeded) and cleared only by logout().  A page load
\* constructs a new store.
C11_StoreStateMachine ==
  /\ loading = TRUE
  /\ user = Null
  /\ [][IF last'.op = "load"
          THEN loading' /\ user' = Null
          ELSE /\ loading' => (loading /\ user' = Null)
               /\ (loading /\ ~loading') <=> last'.op = "me"
               /\ (~loading /\ user = Null /\ user' # Null) =>
                    (last'.op = "token" /\ last'.kind = "success")
               /\ (~loading /\ user # Null /\ user' # user) =>
                    (last'.op = "logout" /\ user' = Null)]_vars

C11_Witness ==
  /\ last.op = "logout"
  /\ last.kind = "success"
  /\ last.userAt # Null
  /\ user = Null
  /\ ~loading

\* C12: while the store is Unknown nothing but the identity check is in
\* flight, no handler of a view has run and no navigation is pending; a guard
\* redirect is made only by a resolved, Unauthenticated store, and an
\* identity check that succeeds leaves the customer on the page.
C12_NoGuardWhileUnknown ==
  /\ loading =>
       /\ \A r \in requests : r.op = "me"
       /\ last.op \in {"load", "headers", "timer"}
       /\ href = NoHref
       /\ ~open /\ messages = <<>>
  /\ last.op = "guard" => (~loading /\ user = Null)
  /\ (last.op = "me" /\ last.kind = "success") =>
       (pathname = last.pathAt /\ last.navs = <<>> /\ href = NoHref /\ ~GuardPending)

C12_Witness ==
  /\ last.op = "guard"
  /\ last.navs = <<Nav("guard", PathLogin)>>
  /\ pathname = PathLogin
  /\ user = Null
  /\ ~loading

\* C13: once the store has resolved, a guarded route in Unauthenticated has
\* its redirect to the login view due and renders none of its view, and in
\* Authenticated renders its view with no redirect due.
C13_GuardedViewsBehaveAsGuards ==
  (~loading /\ href = NoHref /\ pathname \in Protected) =>
    IF user = Null
      THEN GuardPending /\ ~Renders(pathname, isLoggedIn)
      ELSE ~GuardPending /\ Renders(pathname, isLoggedIn)

\* C14: login(identity), called when the token exchange has succeeded, sets
\* the user to exactly the identity it was given, leaves the store resolved
\* and issues no request.
C14_LoginIsLocal ==
  [][(last'.op = "token" /\ last'.kind = "success") =>
       /\ user' = last'.arg[1]
       /\ user' \in Customers
       /\ ~loading /\ ~loading'
       /\ Cardinality(requests') < Cardinality(requests)
       /\ \A n \in requests' :
            \E r \in requests : /\ r.op # "token"
                                /\ r.endpoint = n.endpoint
                                /\ r.turn = n.turn
                                /\ r.phase = n.phase]_vars

C14_Witness ==
  /\ last.op = "token"
  /\ last.kind = "success"
  /\ last.arg = <<"c1">>
  /\ user = "c1"
  /\ pathname = PathOrders

\* C15: the chat entry point is shown exactly when the store is
\* Authenticated and the path is neither '/' nor '/login'; the chat page has
\* state only where the entry point is shown, and the popup is toggled only
\* there.
C15_EntryPointOnlyWhereRelevant ==
  /\ [](/\ EntryPointShown(user, loading, pathname) <=>
             (~loading /\ user # Null /\ pathname \notin {PathRoot, PathLogin})
        /\ (input # <<>> \/ chatLoading) =>
             (~loading /\ user # Null /\ pathname \notin {PathRoot, PathLogin}))
  /\ [][(open' # open /\ user' = user /\ loading' = loading) =>
          (~loading /\ user # Null /\ pathname \notin {PathRoot, PathLogin})]_vars

C15_Witness ==
  /\ user # Null
  /\ ~loading
  /\ pathname = PathRoot
  /\ open
  /\ Len(messages) = 1
  /\ ~EntryPointShown(user, loading, pathname)

AgentCalls(rq, i) == {r \in rq : r.op = "agent" /\ r.sess /\ r.turn = i}

\* C16: a turn has one request in flight while it is pending and none once
\* it has settled; a request for a turn is issued only by the sendMessage
\* that accepts the turn, and the settling of a turn, whatever the outcome,
\* issues nothing.
C16_OneRequestPerTurn ==
  /\ [](\A i \in 1..Len(turns) :
          Cardinality(AgentCalls(requests, i)) =
            (IF turns[i].state = "pending" THEN 1 ELSE 0))
  /\ [][/\ (\E n \in requests' :
              n.op = "agent" /\ n.sess /\ AgentCalls(requests, n.turn) = {}) =>
             (last'.op = "sendMessage" /\ Len(turns') = Len(turns) + 1)
        /\ last'.op = "agent" =>
             Cardinality({n \in requests' : n.op = "agent"}) <
               Cardinality({r \in requests : r.op = "agent"})]_vars

C16_Witness ==
  /\ last.op = "agent"
  /\ last.kind = "http"
  /\ last.sess
  /\ Len(turns) = 1
  /\ turns[1].state = "failed"
  /\ \A r \in requests : r.op # "agent"

Settled == last.op = "settled"

\* C17: a settled call has returned or thrown, not both; it has returned,
\* and then the parsed body, exactly when the status was a success status and
\* the body parsed; a 401, any other status, a network failure, a timeout
\* and a body that does not parse have each thrown, with nothing returned;
\* the settled call is no longer in flight.
C17_ReturnsOnlyParsedSuccess ==
  Settled =>
    LET res == last.res
        net == last.net
        success == net.kind = "response" /\ ok(net.status) /\ net.body.parsed
    IN  /\ requests = {}
        /\ res.threw <=> ~success
        /\ ~res.threw => (res.value = net.body.data /\ res.error = NoError)
        /\ res.threw => (res.value = NoData /\ res.error.message # <<>>)

C17_Witness ==
  /\ Settled
  /\ last.net.kind = "response"
  /\ last.net.status = 204
  /\ ~last.net.body.parsed
  /\ last.res.threw
  /\ last.res.error.message = <<"Invalid JSON response from server">>

NonGet(method) == method # Undefined /\ method \notin {"GET", "get"}

\* C18 as stated: the request handed to fetch() has Content-Type:
\* application/json when its method is not GET, and no Content-Type when its
\* method is GET or not given, whatever options the caller passed.
C18_ContentTypeByMethodAlone ==
  \A r \in requests :
    r.sent.headers["Content-Type"] =
      (IF NonGet(r.sent.method) THEN "application/json" ELSE Undefined)

\* C18 amended: the same for every call whose options carry no Content-Type
\* header of their own; a Content-Type the caller passes in options.headers
\* is sent as it is, with any method; the other headers of the caller and
\* the method are sent unchanged.
C18_ContentTypeUnlessOverridden ==
  \A r \in requests :
    /\ r.sent.headers["Content-Type"] =
         (IF r.options.headers["Content-Type"] # Undefined
            THEN r.options.headers["Content-Type"]
          ELSE IF NonGet(r.sent.method) THEN "application/json"
          ELSE Undefined)
    /\ r.sent.headers["Accept"] = r.options.headers["Accept"]
    /\ r.sent.method = r.options.method

C18_Witness ==
  \E r \in requests :
    /\ r.options.method = "post"
    /\ r.options.headers = [NoHeaders EXCEPT !["Accept"] = "text/html"]
    /\ r.sent.headers["Content-Type"] = "application/json"

HttpError ==
  /\ Settled
  /\ last.net.kind = "response"
  /\ ~ok(last.net.status)
  /\ last.net.status # 401

Generic(status) == <<"HTTP ", ToString(status), ": ", statusText(status)>>

\* the first of the fields detail, message, error for which `has` holds
FirstField(data, has(_)) ==
  IF has(data.detail) THEN <<data.detail>>
  ELSE IF has(data.message) THEN <<data.message>>
  ELSE IF has(data.error) THEN <<data.error>>
  ELSE <<>>

IsPresent(v) == v # Undefined

\* the statement about the status and the details, common to both forms
StatusAndDetails ==
  /\ last.res.threw
  /\ last.res.error.status = last.net.status
  /\ last.res.error.details = (IF last.net.body.parsed THEN last.net.body ELSE NoBody)
  /\ ~last.net.body.parsed => last.res.error.message = Generic(last.net.status)

\* C19 as stated: the message of the error of a non-success, non-401
\* response is the first of the body's fields detail, message, error that is
\* present; it is the generic message when the body does not parse; the
\* error carries the status, and the parsed body as details when it parsed.
C19_FirstPresentField ==
  HttpError =>
    /\ StatusAndDetails
    /\ (last.net.body.parsed /\ FirstField(last.net.body.data, IsPresent) # <<>>) =>
         last.res.error.message = FirstField(last.net.body.data, IsPresent)

\* C19 amended: the message is the first of detail, message, error that is
\* present and not empty (truthy), and the generic message when there is no
\* such field or the body does not parse.
C19_FirstTruthyField ==
  HttpError =>
    /\ StatusAndDetails
    /\ last.net.body.parsed =>
         last.res.error.message =
           (IF FirstField(last.net.body.data, Truthy) # <<>>
              THEN FirstField(last.net.body.data, Truthy)
              ELSE Generic(last.net.status))

C19_Witness ==
  /\ HttpError
  /\ last.net.status = 404
  /\ last.net.body.parsed
  /\ last.net.body.data.detail = ""
  /\ last.net.body.data.message = "m"
  /\ last.net.body.data.error = "e"
  /\ last.res.error.message = <<"m">>

Blanks(n) == [k \in 1..n |-> " "]

\* C20: the body of the request of an accepted turn has `message` equal to
\* the input without its leading and trailing blanks, and
\* `previous_messages` equal to the history before the turn: as long, in the
\* same order, role 'assistant' for an agent message and 'user' for a user
\* message, content the text; the message of the turn is appended to the
\* history and is not among previous_messages.
C20_TurnRequestBody ==
  [][(last'.op = "sendMessage" /\ ~IsBlank(last'.arg)) =>
       /\ Len(turns') = Len(turns) + 1
       /\ LET body == turns'[Len(turns')]
              prev == body.previous_messages
          IN  /\ body.text # <<>>
              /\ body.text[1] # " " /\ body.text[Len(body.text)] # " "
              /\ \E i, j \in 0..Len(input) :
                   input = Blanks(i) \o body.text \o Blanks(j)
              /\ Len(prev) = Len(messages)
              /\ \A k \in 1..Len(messages) :
                   /\ prev[k].role = (IF messages[k].sender = "agent"
                                        THEN "assistant" ELSE "user")
                   /\ messages[k].sender \in {"agent", "user"}
                   /\ prev[k].content = messages[k].text
              /\ Len(messages') = Len(prev) + 1
              /\ IsPrefix(messages, messages')
              /\ messages'[Len(messages')] = UserMessage(body.text)
              /\ \E r \in requests' : /\ r.op = "agent"
                                      /\ r.endpoint = "/agent/"
                                      /\ r.turn = Len(turns')
                                      /\ r.phase = "fetch"]_vars

C20_Witness ==
  /\ last.op = "sendMessage"
  /\ Len(turns) = 2
  /\ turns[2].state = "pending"
  /\ turns[2].text = <<"a", " ", "b">>
  /\ turns[2].previous_messages =
       <<[role |-> "user", content |-> <<"a", " ", "b">>],
         [role |-> "assistant", content |-> <<"r2">>]>>
  /\ Len(messages) = 3

\* nothing is under way: no page load, no effect, no call
Idle == href = NoHref /\ ~EffectPending /\ requests = {}

\* the step just taken was the customer's
UserActed == last.op \in {"user", "link"}

Redirected401 ==
  /\ last'.kind = "auth"
  /\ last'.op # "token"
  /\ ~(last'.endpoint \in {"/me", "/validate"})
  /\ last'.pathAt # PathLogin

\* the step is a successful login on the login view: by the form, or by the
\* redirect of a customer who is logged in already
LoggedIn ==
  \/ last'.op = "token" /\ last'.kind = "success"
  \/ last'.op = "loginEffect"

\* what is common to both forms of C22: the page load takes the target from
\* the URL, the login view keeps it while the customer stays there, and a
\* successful login ends on the target, on '/orders' when there is none, and
\* never on '/login'
ResumeSteps ==
  /\ last'.op = "load" =>
       (pathname' = PathnameOf(href) /\ redirect' = RedirectOf(href))
  /\ (pathname = PathLogin /\ pathname' = PathLogin /\ last'.op # "load") =>
       redirect' = redirect
  /\ LoggedIn =>
       /\ pathname' = (IF redirect # NoRedirect /\ redirect # PathLogin
                         THEN redirect ELSE PathOrders)
       /\ pathname' # PathLogin
       /\ user' # Null

\* C22 as stated: a 401 redirect made on a path P other than '/login' loads
\* the login view with P as its target, for every P, and the login resumes
\* the target.
C22_ResumesEveryPath ==
  [][/\ Redirected401 =>
          (PathnameOf(href') = PathLogin /\ RedirectOf(href') = last'.pathAt)
     /\ ResumeSteps]_vars

\* C22 amended: the same for every P other than '/login' and '/'; a 401
\* redirect made on '/' preserves no target, and the login then ends on
\* '/orders'.
C22_ResumesPreservedTarget ==
  [][/\ Redirected401 =>
          /\ PathnameOf(href') = PathLogin
          /\ RedirectOf(href') = (IF last'.pathAt = PathRoot THEN NoRedirect
                                                            ELSE last'.pathAt)
     /\ ResumeSteps]_vars

C22_Witness ==
  /\ last.op = "token"
  /\ last.kind = "success"
  /\ last.navs = <<Nav("login", PathOrderDetail)>>
  /\ pathname = PathOrderDetail
  /\ user # Null

\* the message is one of a turn of the chat session that is open now
OfThisSession(message) ==
  \E i \in 1..Len(turns) :
    \/ message = UserMessage(turns[i].text)
    \/ /\ turns[i].state = "success"
       /\ message = AgentMessage(turns[i])
    \/ /\ turns[i].state = "failed"
       /\ message = [sender |-> "agent", text |-> Apology, orderSummary |-> Undefined]

\* C23: there is no history without a session; every change of the user
\* (logout, page load, login) leaves the history empty; the answer to a turn
\* of an earlier session, arriving late, appends nothing; so every message
\* shown, and every message sent as previous_messages, is one of the
\* session that is open.
C23_HistoryEndsWithSession ==
  /\ []((user = Null \/ loading) => (messages = <<>> /\ turns = <<>>))
  /\ [](\A k \in 1..Len(messages) : OfThisSession(messages[k]))
  /\ [][/\ user' # user => (messages' = <<>> /\ turns' = <<>>)
        /\ (last'.op = "agent" /\ ~last'.sess) => messages' = messages
        /\ Len(turns') > Len(turns) =>
             LET prev == turns'[Len(turns')].previous_messages
             IN  \A k \in 1..Len(prev) :
                   \E j \in 1..Len(messages) :
                     /\ OfThisSession(messages[j])
                     /\ prev[k].content = messages[j].text]_vars

C23_Witness ==
  /\ last.op = "agent"
  /\ last.kind = "success"
  /\ ~last.sess
  /\ last.userAt # Null
  /\ user # Null
  /\ messages = <<>>
  /\ pathname = PathOrders

ProtectedOps == {"orders", "search", "detail", "agent"}

\* the call n is issued by the step
Issued(n) ==
  /\ n \in requests'
  /\ n.phase = "fetch"
  /\ ~\E r \in requests : /\ r.op = n.op
                          /\ r.endpoint = n.endpoint
                          /\ r.turn = n.turn
                          /\ r.phase = n.phase

C25_TurnCompletesOnceTimerFired ==
  (last.op = "timer" /\ last.endpoint = "/agent/" /\ last.sess) =>
    /\ turns[last.turn].state # "pending"
    /\ OfThisSession(messages[Len(messages)])
    /\ messages[Len(messages)].sender = "agent"
    /\ ~\E r \in requests : r.op = "agent" /\ r.sess /\ r.inst /\ r.turn = last.turn

====
